---- MODULE Spec2Model ----
(***************************************************************************)
(* Contract analyzer (src/main.py): the per-upload script flow             *)
(* normalize_language -> classify_contract -> extract_clauses ->           *)
(* extract_entities -> clause loop -> overall -> audit record, with the    *)
(* pure text functions computed character by character on strings.        *)
(***************************************************************************)
EXTENDS Integers, Sequences, FiniteSets, TLC

(***************************************************************************)
(* Bounds of the model.                                                    *)
(***************************************************************************)
MaxRiskTokens == 2
MaxClassifyTokens == 2
MaxSegmentTokens == 3
MaxFlowTokens == 2
MaxEntityTokens == 2
MaxClock == 1
NumRuns == 2

(***************************************************************************)
(* Strings: characters, character classes of the re module, str methods.   *)
(***************************************************************************)
Char(s, i) == SubSeq(s, i, i)

UPPER == "ABCDEFGHIJKLMNOPQRSTUVWXYZ"
LOWER == "abcdefghijklmnopqrstuvwxyz"
Upper == {Char(UPPER, i) : i \in 1..26}
Letter == Upper \cup {Char(LOWER, i) : i \in 1..26}
Digit == {Char("0123456789", i) : i \in 1..10}
Space == {" ", "\n", "\t", "\r"}
Word == Letter \cup Digit \cup {"_"}
None == "None"

LowerChar(c) ==
    IF c \in Upper THEN Char(LOWER, CHOOSE i \in 1..26 : Char(UPPER, i) = c)
    ELSE c

\* The characters a..b of s, each in lower case.
RECURSIVE LowerRange(_, _, _)
LowerRange(s, a, b) ==
    IF a > b THEN ""
    ELSE IF a = b THEN LowerChar(Char(s, a))
    ELSE LowerRange(s, a, (a + b) \div 2) \o LowerRange(s, (a + b) \div 2 + 1, b)

\* str.lower()
str_lower(s) == LowerRange(s, 1, Len(s))

\* Python's  k in t  on strings: substring containment.
Contains(k, t) ==
    \E i \in 1..(Len(t) - Len(k) + 1) : SubSeq(t, i, i + Len(k) - 1) = k

\* Literal k occurs in t starting at position p.
StartsAt(t, p, k) ==
    /\ p + Len(k) - 1 <= Len(t)
    /\ SubSeq(t, p, p + Len(k) - 1) = k

Min(S) == CHOOSE v \in S : \A w \in S : v <= w
Max(S) == CHOOSE v \in S : \A w \in S : v >= w

\* First position >= i whose character is outside the class S (greedy run).
RunEnd(t, i, S) ==
    Min({j \in i..(Len(t) + 1) : j > Len(t) \/ Char(t, j) \notin S} \cup {Len(t) + 1})

\* Last position <= i whose character is outside the class S, or 0.
RunStart(t, i, S) ==
    Max({j \in 0..i : j = 0 \/ Char(t, j) \notin S} \cup {0})

\* str.strip(chars)
str_strip(s, S) ==
    LET a == RunEnd(s, 1, S)
        b == RunStart(s, Len(s), S)
    IN  IF a > b THEN "" ELSE SubSeq(s, a, b)

RECURSIVE SumSeq(_)
SumSeq(q) == IF q = <<>> THEN 0 ELSE Head(q) + SumSeq(Tail(q))

(***************************************************************************)
(* risk_analysis                                                           *)
(***************************************************************************)
RISK_RULES ==
    << <<"penalty", 3>>, <<"indemnify", 4>>, <<"terminate at any time", 4>>,
       <<"without notice", 3>>, <<"non compete", 4>>, <<"auto renew", 3>>,
       <<"arbitration", 2>>, <<"jurisdiction", 2>> >>

risk_score(text) ==
    LET t == str_lower(text)
    IN  SumSeq([i \in 1..Len(RISK_RULES) |->
                  IF Contains(RISK_RULES[i][1], t) THEN RISK_RULES[i][2] ELSE 0])

\* risk_tier with the High threshold taken strictly
risk_tier_strict(score) ==
    IF score > 7 THEN "High"
    ELSE IF score >= 4 THEN "Medium"
    ELSE "Low"

risk_tier(score) ==
    IF score >= 7 THEN "High"
    ELSE IF score >= 4 THEN "Medium"
    ELSE "Low"

risk_analysis(text) == risk_tier(risk_score(text))

(***************************************************************************)
(* classify_contract                                                       *)
(***************************************************************************)
rules ==
    << <<"Employment Agreement", <<"employee", "employer", "salary", "termination">> >>,
       <<"Lease Agreement", <<"rent", "tenant", "lease">> >>,
       <<"Vendor / Service Agreement", <<"vendor", "service", "fees">> >>,
       <<"Partnership Deed", <<"partner", "profit sharing">> >> >>

\* scores[k] = number of keywords of type k contained in the lower-cased text
scores(text) ==
    LET t == str_lower(text)
    IN  [k \in 1..Len(rules) |->
           SumSeq([j \in 1..Len(rules[k][2]) |->
                     IF Contains(rules[k][2][j], t) THEN 1 ELSE 0])]

\* max(scores, key=scores.get): the first key, in dict order, of maximal score
best(sc) ==
    CHOOSE k \in 1..Len(sc) :
        /\ \A j \in 1..Len(sc) : sc[j] <= sc[k]
        /\ \A j \in 1..(k - 1) : sc[j] < sc[k]

\* round(num / den, 2) in hundredths; an exact tie goes to the even digit
round2(num, den) ==
    LET q == (100 * num) \div den
        r == (100 * num) % den
    IN  IF 2 * r > den THEN q + 1
        ELSE IF 2 * r < den THEN q
        ELSE IF q % 2 = 0 THEN q ELSE q + 1

\* confidence without the + 1 in the denominator
confidence_undamped(sc) ==
    round2(sc[best(sc)], IF SumSeq(sc) = 0 THEN 1 ELSE SumSeq(sc))

confidence(sc) == round2(sc[best(sc)], SumSeq(sc) + 1)

classify_contract(text) ==
    LET sc == scores(text)
    IN  [best |-> rules[best(sc)][1], confidence |-> confidence(sc)]

(***************************************************************************)
(* extract_clauses                                                         *)
(***************************************************************************)
\* re.sub(r"\s+", " ", text)
\* What the substitution leaves of the character at i: a run of whitespace
\* becomes one space, written where the run begins.
Collapsed(t, i) ==
    IF Char(t, i) \notin Space THEN Char(t, i)
    ELSE IF i > 1 /\ Char(t, i - 1) \in Space THEN ""
    ELSE " "

RECURSIVE CollapseRange(_, _, _)
CollapseRange(t, a, b) ==
    IF a > b THEN ""
    ELSE IF a = b THEN Collapsed(t, a)
    ELSE CollapseRange(t, a, (a + b) \div 2) \o CollapseRange(t, (a + b) \div 2 + 1, b)

collapse_ws(text) == CollapseRange(text, 1, Len(text))

\* The group (\d+[\.\)]\s*[A-Z][A-Za-z\s]+:) tried at position g: the
\* position after its colon, or 0 when it does not match there.
HeadingEnd(t, g) ==
    LET d == RunEnd(t, g, Digit)
        u == RunEnd(t, d + 1, Space)
        e == RunEnd(t, u + 1, Letter \cup Space)
    IN  IF /\ d > g
           /\ d <= Len(t) /\ Char(t, d) \in {".", ")"}
           /\ u <= Len(t) /\ Char(t, u) \in Upper
           /\ e > u + 1
           /\ e <= Len(t) /\ Char(t, e) = ":"
        THEN e + 1 ELSE 0

\* The pattern (?:^|\s)(...) tried at position p: <<group start, end>> or <<>>.
HeadingMatch(t, p) ==
    IF p = 1 /\ HeadingEnd(t, 1) # 0 THEN <<1, HeadingEnd(t, 1)>>
    ELSE IF p <= Len(t) /\ Char(t, p) \in Space /\ HeadingEnd(t, p + 1) # 0
         THEN <<p + 1, HeadingEnd(t, p + 1)>>
    ELSE <<>>

\* pattern.split(text) from position last on: the leftmost match at or
\* after it splits off [before, group] and the scan goes on behind the match.
RECURSIVE SplitFrom(_, _)
SplitFrom(t, last) ==
    LET starts == {p \in last..Len(t) : HeadingMatch(t, p) # <<>>}
    IN  IF starts = {} THEN << SubSeq(t, last, Len(t)) >>
        ELSE LET p == Min(starts)
                 m == HeadingMatch(t, p)
             IN  << SubSeq(t, last, p - 1), SubSeq(t, m[1], m[2] - 1) >>
                    \o SplitFrom(t, m[2])

\* [before, group, between, group, ..., after]
pattern_split(t) == SplitFrom(t, 1)

\* for i in range(1, len(parts), 2): clauses.append(...)
headed_clauses(parts) ==
    [j \in 1..((Len(parts) - 1) \div 2) |->
        [title |-> str_strip(parts[2 * j], {":", " "}),
         text |-> str_strip(parts[2 * j + 1], Space)]]

\* extract_clauses without the General Clause fallback
extract_clauses_no_fallback(text) ==
    headed_clauses(pattern_split(collapse_ws(text)))

extract_clauses(text) ==
    LET t == collapse_ws(text)
        cl == headed_clauses(pattern_split(t))
    IN  IF cl = <<>> THEN << [title |-> "General Clause", text |-> t] >>
        ELSE cl

(***************************************************************************)
(* extract_entities                                                        *)
(***************************************************************************)
Fields == {"Parties", "Dates", "Amounts", "Jurisdiction"}
Roles == <<"Employer", "Employee", "Company", "Vendor", "Client">>
Places == <<"India", "Tamil Nadu", "Delhi", "Mumbai", "Chennai">>
Currency == <<"₹", "$", "Rs">>

\* An alternation of literals tried at p: the first alternative that occurs
\* there, or "" when none does.
AltAt(t, p, alts) ==
    IF \E i \in 1..Len(alts) : StartsAt(t, p, alts[i])
    THEN alts[CHOOSE i \in 1..Len(alts) :
                /\ StartsAt(t, p, alts[i])
                /\ \A j \in 1..(i - 1) : ~StartsAt(t, p, alts[j])]
    ELSE ""

\* \b at position p: exactly one of the characters around it is a word one.
Boundary(t, p) ==
    LET before == p > 1 /\ Char(t, p - 1) \in Word
        after == p <= Len(t) /\ Char(t, p) \in Word
    IN  before # after

\* (₹|\$|Rs\.?) at p: the text of the group, or "".
SymbolAt(t, p) ==
    LET a == AltAt(t, p, Currency)
    IN  IF a = "Rs" /\ StartsAt(t, p + 2, ".") THEN "Rs." ELSE a

\* (?:,\d+)* from position i: the position after the last repetition.
RECURSIVE GroupsEnd(_, _)
GroupsEnd(t, i) ==
    LET d == RunEnd(t, i + 1, Digit)
    IN  IF i <= Len(t) /\ Char(t, i) = "," /\ d > i + 1 THEN GroupsEnd(t, d)
        ELSE i

\* The pattern of a field tried at position p: the position after the
\* match, or 0 when the pattern does not match at p.
MatchEnd(field, t, p) ==
    CASE field = "Parties" ->
           LET r == AltAt(t, p, Roles)
               s == p + Len(r)
               u == RunEnd(t, s, Space)
               e == RunEnd(t, u + 1, Letter \cup {" ", "&"})
           IN  IF /\ r # ""
                  /\ u > s
                  /\ u <= Len(t) /\ Char(t, u) \in Upper
                  /\ e > u + 1
               THEN e ELSE 0
      [] field = "Dates" ->
           LET a == RunEnd(t, p, Digit)
               b == RunEnd(t, a + 1, Digit)
               c == RunEnd(t, b + 1, Digit)
           IN  IF /\ Boundary(t, p)
                  /\ a - p \in 1..2
                  /\ a <= Len(t) /\ Char(t, a) \in {"/", "-"}
                  /\ b - (a + 1) \in 1..2
                  /\ b <= Len(t) /\ Char(t, b) \in {"/", "-"}
                  /\ c - (b + 1) \in 2..4
                  /\ Boundary(t, c)
               THEN c ELSE 0
      [] field = "Amounts" ->
           LET y == SymbolAt(t, p)
               s == p + Len(y)
               n == IF s <= Len(t) /\ Char(t, s) \in Space THEN s + 1 ELSE s
               d == RunEnd(t, n, Digit)
               g == GroupsEnd(t, d)
               f == RunEnd(t, g + 1, Digit)
           IN  IF y = "" \/ d = n THEN 0
               ELSE IF g <= Len(t) /\ Char(t, g) = "." /\ f > g + 1 THEN f
               ELSE g
      [] field = "Jurisdiction" ->
           LET a == AltAt(t, p, Places)
           IN  IF a = "" THEN 0 ELSE p + Len(a)

\* What re.findall reports for a match at p..e-1: the text of the pattern's
\* capturing group when it has one, the whole match when it has none.
Reported(field, t, p, e) ==
    CASE field = "Parties" -> AltAt(t, p, Roles)
      [] field = "Dates" -> SubSeq(t, p, e - 1)
      [] field = "Amounts" -> SymbolAt(t, p)
      [] field = "Jurisdiction" -> AltAt(t, p, Places)

\* The non-overlapping matches of a field's pattern, scanning from p, as
\* <<start, end>> pairs.
RECURSIVE Matches(_, _, _)
Matches(field, t, p) ==
    LET starts == {q \in p..Len(t) : MatchEnd(field, t, q) # 0}
    IN  IF starts = {} THEN <<>>
        ELSE LET q == Min(starts)
             IN  << <<q, MatchEnd(field, t, q)>> >>
                    \o Matches(field, t, MatchEnd(field, t, q))

\* list(set(re.findall(pattern, text)))
findall_set(field, t) ==
    LET ms == Matches(field, t, 1)
    IN  {Reported(field, t, ms[i][1], ms[i][2]) : i \in 1..Len(ms)}

extract_entities(text) == [f \in Fields |-> findall_set(f, text)]

(***************************************************************************)
(* GenAI helpers: with the toggle off each returns its canned text.        *)
(***************************************************************************)
USE_GENAI == FALSE

gpt_contract_summary(t) ==
    IF ~USE_GENAI THEN "This contract defines obligations, rights, and termination conditions"
    ELSE "GenAI summary"

gpt_explain_clause(clause_text) ==
    IF ~USE_GENAI THEN "This clause explains a specific obligation or restriction."
    ELSE "GenAI explanation"

gpt_suggest_alternative(clause_text) ==
    IF ~USE_GENAI THEN "Consider revising this clause to limit liability, add notice periods"
    ELSE "GenAI alternative"

(***************************************************************************)
(* normalize_language; d is what langdetect's detect does on the text:     *)
(* a language code it returns, or "raise".                                 *)
(***************************************************************************)
DetectOutcomes == {"hi", "en", "raise"}

detected_lang(d) == IF d = "raise" THEN "unknown" ELSE d

\* normalize_language passing the tag of a failed detection through
normalize_language_keep_unknown(t, d) ==
    [language |-> IF detected_lang(d) = "hi" THEN "Hindi"
                  ELSE IF detected_lang(d) = "unknown" THEN "unknown"
                  ELSE "English",
     normalized |-> t]

normalize_language(t, d) ==
    [language |-> IF detected_lang(d) = "hi" THEN "Hindi" ELSE "English",
     normalized |-> t]

(***************************************************************************)
(* The clause loop's decisions and the overall tier.                       *)
(***************************************************************************)
\* ... if risk != "Low" else the dash placeholder
\* the suggestion requested for every clause
needs_suggestion_always(r) == TRUE

needs_suggestion(r) == r # "Low"

InSeq(v, q) == \E j \in 1..Len(q) : q[j] = v

\* overall_risk testing Medium before High
overall_risk_medium_first(rs) ==
    IF InSeq("Medium", rs) THEN "Medium"
    ELSE IF InSeq("High", rs) THEN "High"
    ELSE "Low"

overall_risk(rs) ==
    IF InSeq("High", rs) THEN "High"
    ELSE IF InSeq("Medium", rs) THEN "Medium"
    ELSE "Low"

(***************************************************************************)
(* Uploaded documents: texts put together from a few fragments.            *)
(***************************************************************************)
RiskTokens ==
    {"penalty", "INDEMNIFY", "Terminate at any time", "without notice",
     "non ", "compete", "auto renew", "Arbitration", "jurisdiction"}

ClassifyTokens ==
    {"Employer salary termination ", "rent tenant lease and vendor ",
     "Employee", "service fees ", "partner", "profit sharing", "LEASE", "zzz "}

SegmentTokens ==
    {"1. Term:", "2)Pay due:", " ", "\n\t", "indemnify", "3. x:"}

FlowTokens ==
    {"1. Scope: arbitration ", " 2. Fees: indemnify",
     " 3. Exit: penalty and Indemnify", " 4. Misc:", "preamble penalty"}

EntityTokens ==
    {"Paid Rs. 5,000 on 12/04/2023 in Mumbai", " ", "$ 12.50",
     "Employer Acme & Co", " Client Bob", "1-2-34", "5", "Tamil Nadu"}

\* All concatenations of at most n fragments of V.
RECURSIVE Texts(_, _)
Texts(V, n) ==
    IF n = 0 THEN {""}
    ELSE LET S == Texts(V, n - 1) IN S \cup {s \o v : s \in S, v \in V}

Documents ==
    Texts(RiskTokens, MaxRiskTokens) \cup Texts(ClassifyTokens, MaxClassifyTokens)
      \cup Texts(SegmentTokens, MaxSegmentTokens) \cup Texts(FlowTokens, MaxFlowTokens)
      \cup Texts(EntityTokens, MaxEntityTokens)

Runs == 1..NumRuns
FileNames == {"contract.txt"}

(***************************************************************************)
(* State.                                                                  *)
(***************************************************************************)
VARIABLES
    pc,            \* position of the analysed upload in the script
    raw,           \* raw = extract_text(uploaded)
    text,          \* text = normalize_language(raw)["normalized"]
    lang,          \* normalize_language's local  lang
    langResult,    \* the dict normalize_language returned
    ctype, conf,   \* classify_contract's pair; conf in hundredths
    clauses,       \* extract_clauses(text)
    entities,      \* extract_entities(text)
    summary,       \* gpt_contract_summary(text)
    idx,           \* position of  cl  in  clauses
    risk, explanation, suggestion,   \* the loop body's locals
    risks, analyzed,                 \* the two lists the loop appends to
    suggestCalls,  \* clauses for which gpt_suggest_alternative was called
    overall,       \* the overall document tier
    clock,         \* datetime.now()
    runPc,         \* per run: position in the audit block
    runIn,         \* per run: uploaded.name, ctype and overall
    runAudit,      \* per run: the  audit  dict
    runName,       \* per run: the timestamp in the audit file's name
    store          \* audit_logs: file name -> content

vars == <<pc, raw, text, lang, langResult, ctype, conf, clauses, entities,
          summary, idx, risk, explanation, suggestion, risks, analyzed,
          suggestCalls, overall, clock, runPc, runIn, runAudit, runName, store>>

analysisVars == <<pc, raw, text, lang, langResult, ctype, conf, clauses,
                  entities, summary, idx, risk, explanation, suggestion,
                  risks, analyzed, suggestCalls, overall>>
auditVars == <<clock, runPc, runIn, runAudit, runName, store>>

\* An upload has been read; nothing is analysed or written yet.
Init ==
    /\ pc = "normalize_language"
    /\ raw \in Documents
    /\ text = None /\ lang = None /\ langResult = None
    /\ ctype = None /\ conf = None
    /\ clauses = None /\ entities = None /\ summary = None
    /\ idx = 0
    /\ risk = None /\ explanation = None /\ suggestion = None
    /\ risks = <<>> /\ analyzed = <<>>
    /\ suggestCalls = {}
    /\ overall = None
    /\ clock = 0
    /\ runPc = [r \in Runs |-> "idle"]
    /\ runIn = [r \in Runs |-> None]
    /\ runAudit = [r \in Runs |-> None]
    /\ runName = [r \in Runs |-> None]
    /\ store = <<>>

(***************************************************************************)
(* The script, one action per step.                                        *)
(***************************************************************************)
NormalizeLanguage ==
    /\ pc = "normalize_language"
    /\ \E d \in DetectOutcomes :
         /\ lang' = detected_lang(d)
         /\ langResult' = normalize_language(raw, d)
    /\ text' = langResult'.normalized
    /\ pc' = "classify_contract"
    /\ UNCHANGED <<raw, ctype, conf, clauses, entities, summary, idx, risk,
                   explanation, suggestion, risks, analyzed, suggestCalls,
                   overall>>
    /\ UNCHANGED auditVars

\* The dict of normalize_language is not kept beyond its ["normalized"].
ClassifyContract ==
    /\ pc = "classify_contract"
    /\ ctype' = classify_contract(text).best
    /\ conf' = classify_contract(text).confidence
    /\ lang' = None /\ langResult' = None
    /\ pc' = "extract_clauses"
    /\ UNCHANGED <<raw, text, clauses, entities, summary, idx, risk,
                   explanation, suggestion, risks, analyzed, suggestCalls,
                   overall>>
    /\ UNCHANGED auditVars

ExtractClauses ==
    /\ pc = "extract_clauses"
    /\ clauses' = extract_clauses(text)
    /\ pc' = "extract_entities"
    /\ UNCHANGED <<raw, text, lang, langResult, ctype, conf, entities, summary,
                   idx, risk, explanation, suggestion, risks, analyzed,
                   suggestCalls, overall>>
    /\ UNCHANGED auditVars

ExtractEntities ==
    /\ pc = "extract_entities"
    /\ entities' = extract_entities(text)
    /\ pc' = "summary"
    /\ UNCHANGED <<raw, text, lang, langResult, ctype, conf, clauses, summary,
                   idx, risk, explanation, suggestion, risks, analyzed,
                   suggestCalls, overall>>
    /\ UNCHANGED auditVars

\* summary, then  analyzed, risks = [], []  and the loop's first clause
Summary ==
    /\ pc = "summary"
    /\ summary' = gpt_contract_summary(text)
    /\ risks' = <<>> /\ analyzed' = <<>>
    /\ idx' = 1
    /\ pc' = "risk"
    /\ UNCHANGED <<raw, text, lang, langResult, ctype, conf, clauses, entities,
                   risk, explanation, suggestion, suggestCalls, overall>>
    /\ UNCHANGED auditVars

ScoreClause ==
    /\ pc = "risk"
    /\ risk' = risk_analysis(clauses[idx].text)
    /\ risks' = Append(risks, risk')
    /\ pc' = "explain"
    /\ UNCHANGED <<raw, text, lang, langResult, ctype, conf, clauses, entities,
                   summary, idx, explanation, suggestion, analyzed,
                   suggestCalls, overall>>
    /\ UNCHANGED auditVars

ExplainClause ==
    /\ pc = "explain"
    /\ explanation' = gpt_explain_clause(clauses[idx].text)
    /\ pc' = "suggest"
    /\ UNCHANGED <<raw, text, lang, langResult, ctype, conf, clauses, entities,
                   summary, idx, risk, suggestion, risks, analyzed,
                   suggestCalls, overall>>
    /\ UNCHANGED auditVars

SuggestAlternative ==
    /\ pc = "suggest"
    /\ needs_suggestion(risk)
    /\ suggestion' = gpt_suggest_alternative(clauses[idx].text)
    /\ suggestCalls' = suggestCalls \cup {idx}
    /\ pc' = "append"
    /\ UNCHANGED <<raw, text, lang, langResult, ctype, conf, clauses, entities,
                   summary, idx, risk, explanation, risks, analyzed, overall>>
    /\ UNCHANGED auditVars

NoSuggestion ==
    /\ pc = "suggest"
    /\ ~needs_suggestion(risk)
    /\ suggestion' = "-"
    /\ pc' = "append"
    /\ UNCHANGED <<raw, text, lang, langResult, ctype, conf, clauses, entities,
                   summary, idx, risk, explanation, risks, analyzed,
                   suggestCalls, overall>>
    /\ UNCHANGED auditVars

\* analyzed.append(...), then the next clause or the end of the loop
AppendAnalyzed ==
    /\ pc = "append"
    /\ analyzed' = Append(analyzed, [title |-> clauses[idx].title,
                                     risk |-> risk,
                                     explanation |-> explanation])
    /\ IF idx < Len(clauses)
       THEN idx' = idx + 1 /\ pc' = "risk"
       ELSE idx' = idx /\ pc' = "overall"
    /\ UNCHANGED <<raw, text, lang, langResult, ctype, conf, clauses, entities,
                   summary, risk, explanation, suggestion, risks, suggestCalls,
                   overall>>
    /\ UNCHANGED auditVars

\* overall = ...; the run then reaches its audit block
Overall ==
    /\ pc = "overall"
    /\ overall' = overall_risk(risks)
    /\ pc' = "audit"
    /\ \E f \in FileNames :
         runIn' = [runIn EXCEPT ![1] = [file |-> f, contract_type |-> ctype,
                                        risk |-> overall']]
    /\ runPc' = [runPc EXCEPT ![1] = "build"]
    /\ UNCHANGED <<raw, text, lang, langResult, ctype, conf, clauses, entities,
                   summary, idx, risk, explanation, suggestion, risks, analyzed,
                   suggestCalls>>
    /\ UNCHANGED <<clock, runAudit, runName, store>>

(***************************************************************************)
(* The audit block of a run, and the clock it reads.                       *)
(***************************************************************************)
Tick ==
    /\ clock < MaxClock
    /\ \E r \in Runs : runPc[r] \in {"build", "write"}
    /\ clock' = clock + 1
    /\ UNCHANGED <<runPc, runIn, runAudit, runName, store>>
    /\ UNCHANGED analysisVars

\* audit = {..., "timestamp": datetime.now().isoformat()}
BuildAudit(r) ==
    /\ runPc[r] = "build"
    /\ runAudit' = [runAudit EXCEPT ![r] =
                      [file |-> runIn[r].file,
                       contract_type |-> runIn[r].contract_type,
                       risk |-> runIn[r].risk,
                       timestamp |-> clock]]
    /\ runPc' = [runPc EXCEPT ![r] = "write"]
    /\ UNCHANGED <<clock, runIn, runName, store>>
    /\ UNCHANGED analysisVars

\* The name of the audit file: f"audit_{datetime.now().timestamp()}.json"
audit_name(now) == now

\* open(name, "w") creates the file or replaces its content
write_file(files, name, content) ==
    [n \in (DOMAIN files) \cup {name} |->
        IF n = name THEN content ELSE files[n]]

WriteAudit(r) ==
    /\ runPc[r] = "write"
    /\ runName' = [runName EXCEPT ![r] = audit_name(clock)]
    /\ store' = write_file(store, audit_name(clock), runAudit[r])
    /\ runPc' = [runPc EXCEPT ![r] = "done"]
    /\ IF r = 1 /\ pc = "audit" THEN pc' = "done" ELSE pc' = pc
    /\ UNCHANGED <<clock, runIn, runAudit>>
    /\ UNCHANGED <<raw, text, lang, langResult, ctype, conf, clauses, entities,
                   summary, idx, risk, explanation, suggestion, risks, analyzed,
                   suggestCalls, overall>>

Next ==
    \/ NormalizeLanguage
    \/ ClassifyContract
    \/ ExtractClauses
    \/ ExtractEntities
    \/ Summary
    \/ ScoreClause
    \/ ExplainClause
    \/ SuggestAlternative
    \/ NoSuggestion
    \/ AppendAnalyzed
    \/ Overall
    \/ Tick
    \/ \E r \in Runs : BuildAudit(r)
    \/ \E r \in Runs : WriteAudit(r)

Spec == Init /\ [][Next]_vars

(***************************************************************************)
(* Concurrent runs at their audit block: every run has finished its        *)
(* analysis and holds the values its audit record is built from.           *)
(***************************************************************************)
AuditInputs ==
    [file : FileNames,
     contract_type : {"Employment Agreement", "Lease Agreement"},
     risk : {"Low", "High"}]

InitAudit ==
    /\ pc = "done"
    /\ raw = None /\ text = None /\ lang = None /\ langResult = None
    /\ ctype = None /\ conf = None
    /\ clauses = None /\ entities = None /\ summary = None
    /\ idx = 0
    /\ risk = None /\ explanation = None /\ suggestion = None
    /\ risks = <<>> /\ analyzed = <<>>
    /\ suggestCalls = {}
    /\ overall = None
    /\ clock = 0
    /\ runPc = [r \in Runs |-> "build"]
    /\ runIn \in [Runs -> AuditInputs]
    /\ runAudit = [r \in Runs |-> None]
    /\ runName = [r \in Runs |-> None]
    /\ store = <<>>

NextAudit ==
    \/ Tick
    \/ \E r \in Runs : BuildAudit(r)
    \/ \E r \in Runs : WriteAudit(r)

SpecAudit == InitAudit /\ [][NextAudit]_vars

(***************************************************************************)
(* Properties.                                                             *)
(***************************************************************************)
\* Keyword k occurs in C when letter case is ignored.
OccursIgnoringCase(k, C) ==
    \E p \in 1..(Len(C) - Len(k) + 1) :
        \A j \in 1..Len(k) : LowerChar(Char(C, p + j - 1)) = Char(k, j)

PresentRules(C) ==
    {i \in 1..Len(RISK_RULES) : OccursIgnoringCase(RISK_RULES[i][1], C)}

RECURSIVE WeightSum(_)
WeightSum(S) ==
    IF S = {} THEN 0
    ELSE LET i == CHOOSE j \in S : TRUE
         IN  RISK_RULES[i][2] + WeightSum(S \ {i})

\* C1: the tier of a clause is High when the weights of the keywords
\* present in it (ignoring case, each counted once) sum to 7 or more, Medium
\* when they sum to 4..6, and Low when they sum to less than 4.
C1_RiskTierFromPresentKeywords ==
    pc = "explain" =>
        LET score == WeightSum(PresentRules(clauses[idx].text))
        IN  /\ score >= 7 => risk = "High"
            /\ (4 <= score /\ score < 7) => risk = "Medium"
            /\ score < 4 => risk = "Low"

\* A clause with upper-case letters and a repeated keyword scored on the
\* High threshold.
C1_Witness ==
    /\ pc = "explain"
    /\ risk = "High"
    /\ WeightSum(PresentRules(clauses[idx].text)) = 7
    /\ clauses[idx].text # str_lower(clauses[idx].text)

Rank(tier) == CASE tier = "Low" -> 1 [] tier = "Medium" -> 2 [] tier = "High" -> 3

\* C2: once the loop is over, every clause has its tier in risks and the
\* overall risk is the greatest of them under Low < Medium < High.
C2_OverallIsMaxTier ==
    (pc = "audit" /\ runPc[1] = "build") =>
        /\ Len(risks) = Len(clauses)
        /\ \A j \in 1..Len(risks) : risks[j] = risk_analysis(clauses[j].text)
        /\ \A j \in 1..Len(risks) : Rank(risks[j]) <= Rank(overall)
        /\ \E j \in 1..Len(risks) : risks[j] = overall

C2_Witness ==
    /\ pc = "audit"
    /\ \E j, k \in 1..Len(risks) : risks[j] = "High" /\ risks[k] = "Medium" /\ k < j
    /\ overall = "High"

AllIn(t, a, b, S) == \A j \in a..b : Char(t, j) \in S

\* A heading marker (number, . or ), capitalised phrase, colon) begins at g.
HeadingAt(t, g) ==
    \E d \in (g + 1)..Len(t) :
        /\ AllIn(t, g, d - 1, Digit)
        /\ Char(t, d) \in {".", ")"}
        /\ \E u \in (d + 1)..Len(t) :
             /\ AllIn(t, d + 1, u - 1, Space)
             /\ Char(t, u) \in Upper
             /\ \E e \in (u + 2)..Len(t) :
                  /\ AllIn(t, u + 1, e - 1, Letter \cup Space)
                  /\ Char(t, e) = ":"

HasHeading(t) ==
    \E g \in 1..Len(t) : (g = 1 \/ Char(t, g - 1) \in Space) /\ HeadingAt(t, g)

\* C3: extract_clauses never returns an empty list, and a text without any
\* heading marker gives the one clause General Clause holding the whole
\* whitespace-collapsed text.
C3_NonEmptyAndFallback ==
    pc = "extract_entities" =>
        /\ Len(clauses) >= 1
        /\ ~HasHeading(collapse_ws(text)) =>
               clauses = << [title |-> "General Clause", text |-> collapse_ws(text)] >>

C3_Witness ==
    /\ pc = "extract_entities"
    /\ ~HasHeading(collapse_ws(text))
    /\ collapse_ws(text) # text
    /\ clauses[1].title = "General Clause"

\* C4: every clause extract_clauses returns has a non-empty text.
C4_ClauseTextNonEmpty ==
    pc = "extract_entities" => \A j \in 1..Len(clauses) : clauses[j].text # ""

\* The characters a..b of s that are not in S.
RECURSIVE DropRange(_, _, _, _)
DropRange(s, a, b, S) ==
    IF a > b THEN ""
    ELSE IF a = b THEN (IF Char(s, a) \in S THEN "" ELSE Char(s, a))
    ELSE DropRange(s, a, (a + b) \div 2, S) \o DropRange(s, (a + b) \div 2 + 1, b, S)

\* s without its whitespace and without the colons strip(": ") may remove.
Essence(s) == DropRange(s, 1, Len(s), Space \cup {":"})

RECURSIVE JoinClauses(_)
JoinClauses(cl) ==
    IF cl = <<>> THEN ""
    ELSE Head(cl).title \o Head(cl).text \o JoinClauses(Tail(cl))

IsFallback(cl) == Len(cl) = 1 /\ cl[1].title = "General Clause"

\* C5: extract_clauses loses no part of the text: the clauses, read in
\* order, give the text back up to whitespace. The bodies alone do when no
\* heading matched; with headings, a heading's own text is looked for in its
\* clause's title (less the colon that strip removes), so that only text
\* left out of every clause counts as lost.
C5_ClausesReconstructText ==
    pc = "extract_entities" =>
        IF IsFallback(clauses) THEN Essence(clauses[1].text) = Essence(text)
        ELSE Essence(JoinClauses(clauses)) = Essence(text)

Hits(k, t) ==
    Cardinality({j \in 1..Len(rules[k][2]) : OccursIgnoringCase(rules[k][2][j], t)})

\* C6: the confidence, in hundredths, is a nearest hundredth of
\* bestScore / (sum of the four scores + 1), lies in [0, 1), and is 0 for a
\* text with no keyword of any type.
C6_Confidence ==
    pc = "extract_clauses" =>
        LET total == Hits(1, text) + Hits(2, text) + Hits(3, text) + Hits(4, text)
            top == CHOOSE b \in 0..4 :
                      /\ \E k \in 1..4 : Hits(k, text) = b
                      /\ \A k \in 1..4 : Hits(k, text) <= b
            off == 100 * top - conf * (total + 1)
        IN  /\ 2 * off <= total + 1
            /\ -2 * off <= total + 1
            /\ conf >= 0 /\ conf < 100
            /\ total = 0 => conf = 0

\* 3 / (7 + 1) = 0.375 rounds to 0.38.
C6_Witness ==
    /\ pc = "extract_clauses"
    /\ conf = 38
    /\ Hits(1, text) = 3 /\ Hits(2, text) = 3 /\ Hits(3, text) = 1

FullMatches(f, t) ==
    LET ms == Matches(f, t, 1)
    IN  {SubSeq(t, ms[i][1], ms[i][2] - 1) : i \in 1..Len(ms)}

\* C7: each field of extract_entities is the set of the whole substrings its
\* pattern matched.
C7_EntitiesAreFullMatches ==
    pc = "summary" => \A f \in Fields : entities[f] = FullMatches(f, text)

C9_AuditRecordsNeverOverwritten ==
    /\ \A r, s \in Runs :
         (r # s /\ runPc[r] = "done" /\ runPc[s] = "done") => runName[r] # runName[s]
    /\ (\A r \in Runs : runPc[r] = "done") => Cardinality(DOMAIN store) = NumRuns

\* C10: gpt_suggest_alternative has been called only for clauses whose tier
\* was already computed and is not Low.
C10_SuggestOnlyAfterNonLowTier ==
    \A j \in suggestCalls :
        /\ j <= Len(risks)
        /\ risks[j] = risk_analysis(clauses[j].text)
        /\ risks[j] # "Low"

C10_Witness ==
    /\ pc = "overall"
    /\ suggestCalls # {}
    /\ \E j \in 1..Len(risks) : risks[j] = "Low" /\ j \notin suggestCalls

====
